---- MODULE Spec2Model ----
(***************************************************************************)
(* FutureMe API (src/main.py): the request handlers over the three         *)
(* document collections "user", "vision" and "goal".                       *)
(*                                                                         *)
(* Encoding.  A Python Optional value is a sequence of length at most one: *)
(* None is <<>> and the value v is <<v>>.  A JSON request body is a        *)
(* function from the field names it carries to such values.  A string the  *)
(* code takes apart (an e-mail, an id_token, an ObjectId in hex) is a      *)
(* sequence of characters; every other string is an atom.                  *)
(***************************************************************************)
EXTENDS Integers, Sequences, FiniteSets, TLC

\* ---- bounds of the model ----
MaxDocs == 2        \* documents inserted over a run (ObjectIds issued)
MaxTime == 1        \* largest reading of the clock
FirstOid == 9       \* numeric value of the first ObjectId the store issues

\* ---- program constants ----
TokenPrefixLen == 6
OidHexLen == 24
ProgressMin == 0
ProgressMax == 100

None == <<>>
Some(v) == <<v>>
EmptyObj == <<>>

Procs == {1, 2}

VARIABLES
    users,      \* db["user"]: sequence of documents, in insertion order
    visions,    \* db["vision"]
    goals,      \* db["goal"]
    nextOid,    \* value of the next ObjectId insert_one assigns
    now,        \* the reading datetime.utcnow() returns
    resp,       \* the last request served and its HTTP response
    pending,    \* register calls between their find_one and their insert_one
    ledger      \* observer: goal ids handed out by create_goal / confirmed deleted

vars == <<users, visions, goals, nextOid, now, resp, pending, ledger>>

\* ------------------------------------------------------------------------
\* ObjectId <-> hex string
\* ------------------------------------------------------------------------
HexLower == <<"0","1","2","3","4","5","6","7","8","9","a","b","c","d","e","f">>
HexUpper == <<"0","1","2","3","4","5","6","7","8","9","A","B","C","D","E","F">>

HexChars == {HexLower[i] : i \in 1..16} \cup {HexUpper[i] : i \in 1..16}

\* int(c, 16) for the characters that are hex digits
HexValue == [c \in HexChars |-> (CHOOSE i \in 1..16 : HexLower[i] = c \/ HexUpper[i] = c) - 1]

IsHexChar(c) == c \in HexChars

\* the hex digit of n at position k from the right (n is below 16^8)
HexDigit(n, k) == IF k >= 8 THEN 0 ELSE (n \div (16 ^ k)) % 16

\* str(ObjectId): 24 lower-case hex characters
FormatObjectId(oid) == [i \in 1..OidHexLen |-> HexLower[HexDigit(oid, OidHexLen - i) + 1]]

\* FormatObjectId, tabulated once for the ids the store can issue in a run
IssuableOids == FirstOid..(FirstOid + MaxDocs)
FormattedOids == [oid \in IssuableOids |-> FormatObjectId(oid)]
ObjectIdStr(oid) == IF oid \in IssuableOids THEN FormattedOids[oid] ELSE FormatObjectId(oid)

\* ObjectId.is_valid(s)
ObjectIdIsValid(s) == Len(s) = OidHexLen /\ \A i \in 1..Len(s) : IsHexChar(s[i])

\* int(s, 16)
HexNumber(s) ==
    LET num[n \in 0..Len(s)] == IF n = 0 THEN 0 ELSE 16 * num[n - 1] + HexValue[s[n]]
    IN num[Len(s)]

\* ObjectId(s): the id, or None where bson raises InvalidId
ParseObjectId(s) == IF ObjectIdIsValid(s) THEN Some(HexNumber(s)) ELSE None

\* ------------------------------------------------------------------------
\* Document store primitives
\* ------------------------------------------------------------------------
Range(s) == {s[i] : i \in 1..Len(s)}

Last(s) == s[Len(s)]
IsPrefix(s, t) == Len(s) <= Len(t) /\ SubSeq(t, 1, Len(s)) = s
DocById(col, oid) == CHOOSE d \in Range(col) : d._id = oid
HasEmail(col, email) == \E d \in Range(col) : d.email = email
WithEmail(col, email) == {i \in 1..Len(col) : col[i].email = email}

Matches(doc, filter) == \A k \in DOMAIN filter : k \in DOMAIN doc /\ doc[k] = filter[k]

Find(col, filter) == {d \in Range(col) : Matches(d, filter)}

\* find_one: some matching document, or None
FindOne(col, filter) ==
    IF Find(col, filter) = {} THEN {None} ELSE {Some(d) : d \in Find(col, filter)}

RECURSIVE Orderings(_)
Orderings(S) ==
    IF S = {} THEN {<<>>}
    ELSE UNION {{<<d>> \o t : t \in Orderings(S \ {d})} : d \in S}

\* variant: ascending order
SortCreatedAsc(S) ==
    {s \in Orderings(S) :
        \A i \in 1..Len(s), j \in 1..Len(s) : i < j => s[i].created_at <= s[j].created_at}

\* cursor.sort("created_at", -1): the documents in some order that is
\* non-increasing in created_at (the order among equal keys is the store's)
SortCreatedDesc(S) ==
    {s \in Orderings(S) :
        \A i \in 1..Len(s), j \in 1..Len(s) : i < j => s[i].created_at >= s[j].created_at}

\* cursor.limit(n)
Limit(s, n) == SubSeq(s, 1, IF Len(s) < n THEN Len(s) ELSE n)

CanInsert == nextOid < FirstOid + MaxDocs

\* collection after insert_one(doc): the store assigns _id = nextOid
InsertOne(col, doc) ==
    Append(col, [k \in DOMAIN doc \cup {"_id"} |-> IF k = "_id" THEN nextOid ELSE doc[k]])

RECURSIVE RemoveFirst(_, _)
RemoveFirst(col, oid) ==
    IF col = <<>> THEN <<>>
    ELSE IF Head(col)._id = oid THEN Tail(col)
    ELSE <<Head(col)>> \o RemoveFirst(Tail(col), oid)

\* collection after {"$set": updates} on the document with _id = oid
SetFields(col, oid, updates) ==
    [i \in 1..Len(col) |->
        IF col[i]._id = oid
        THEN [k \in DOMAIN col[i] \cup DOMAIN updates |->
                 IF k \in DOMAIN updates THEN updates[k] ELSE col[i][k]]
        ELSE col[i]]

\* second reading of the clock inside one handler
LaterReadings == {t \in {now, now + 1} : t <= MaxTime}

\* ------------------------------------------------------------------------
\* serialize_doc
\* ------------------------------------------------------------------------
IsoFormat(t) == <<"iso8601", t>>
IsDatetimeField(k) == k \in {"created_at", "updated_at"}

SerializeDoc(doc) ==
    IF DOMAIN doc = {} THEN doc
    ELSE [k \in (DOMAIN doc \ {"_id"}) \cup {"id"} |->
             IF k = "id" THEN (IF "_id" \in DOMAIN doc THEN ObjectIdStr(doc._id) ELSE None)
             ELSE IF IsDatetimeField(k) THEN IsoFormat(doc[k])
             ELSE doc[k]]

Response(op, status, body) == [op |-> op, status |-> status, body |-> body]

Init ==
    /\ users = <<>>
    /\ visions = <<>>
    /\ goals = <<>>
    /\ nextOid = FirstOid
    /\ now = 0
    /\ resp = Response("none", 0, EmptyObj)
    /\ pending = [p \in Procs |-> None]
    /\ ledger = [created |-> {}, deleted |-> {}]

\* the clock advances between requests
Tick ==
    /\ now < MaxTime
    /\ now' = now + 1
    /\ UNCHANGED <<users, visions, goals, nextOid, resp, pending, ledger>>

\* ------------------------------------------------------------------------
\* Auth
\* ------------------------------------------------------------------------
AtSign == "@"
MailA == <<"a", AtSign, "x.com">>
MailG == <<"a", "b", "c", "d", "e", "f", AtSign, "googleuser.dev">>

\* request bodies offered to POST /api/auth/register
RegisterA == [email |-> Some(MailA), password |-> Some("p")]
RegisterG == [email |-> Some(MailG), password |-> Some("p"), name |-> Some(<<>>)]

RegisterRequests ==
    { RegisterA,
      [email |-> Some(MailA), password |-> Some("q"), name |-> Some(<<"A", "n", "n">>)],
      RegisterG,
      [email |-> Some(MailA)] }

LoginA == [email |-> Some(MailA), password |-> Some("p")]

LoginRequests ==
    { LoginA,
      [email |-> Some(MailA), password |-> Some("q")],
      [email |-> Some(MailG), password |-> Some("p")] }

GoogleX == [id_token |-> Some(<<"a", "b", "c", "d", "e", "f", "X">>)]

GoogleAuthRequests ==
    { GoogleX,
      [id_token |-> Some(<<"a", "b", "c", "d", "e", "f", "Y", "Z">>)],
      [id_token |-> Some(<<"a", "b">>)] }

\* pydantic: a field declared without a default must be present and not null
HasValue(req, k) == k \in DOMAIN req /\ req[k] # None
\* model_dump(): an Optional field that is absent carries its default None
Dumped(req, k) == IF k \in DOMAIN req THEN req[k] ELSE None

RegisterRequestValid(req) == HasValue(req, "email") /\ HasValue(req, "password")
LoginRequestValid(req) == HasValue(req, "email") /\ HasValue(req, "password")

\* email.split("@")[0]
RECURSIVE LocalPart(_)
LocalPart(email) ==
    IF email = <<>> \/ Head(email) = AtSign THEN <<>>
    ELSE <<Head(email)>> \o LocalPart(Tail(email))

\* req.name or req.email.split("@")[0]
RegisterName(req) ==
    IF Dumped(req, "name") \in {None, Some(<<>>)} THEN Some(LocalPart(req.email[1]))
    ELSE req.name

\* variant: the lookup also matches on the password
RegisterExistingByCredentials(req) ==
    FindOne(users, [email |-> req.email[1], password_hash |-> req.password])

\* user_col.find_one({"email": req.email})
RegisterExisting(req) == FindOne(users, [email |-> req.email[1]])

RegisterUser(req, t1, t2) ==
    [ email |-> req.email[1],
      name |-> RegisterName(req),
      password_hash |-> req.password,
      auth_provider |-> "password",
      created_at |-> t1,
      updated_at |-> t2 ]

AuthBody(oid, email, name) ==
    [ token |-> ObjectIdStr(oid),
      user |-> [id |-> ObjectIdStr(oid), email |-> email, name |-> name] ]

Detail(msg) == [detail |-> msg]

\* the tail of register, from the construction of the document on
RegisterInsert(req) ==
    /\ CanInsert
    /\ \E t2 \in LaterReadings :
         /\ users' = InsertOne(users, RegisterUser(req, now, t2))
         /\ now' = t2
    /\ nextOid' = nextOid + 1
    /\ resp' = Response("register", 200,
                        AuthBody(nextOid, req.email[1], RegisterName(req)))

\* POST /api/auth/register, served without interference
Register(req) ==
    /\ \A p \in Procs : pending[p] = None
    /\ IF ~RegisterRequestValid(req)
       THEN /\ resp' = Response("register", 422, Detail("validation"))
            /\ UNCHANGED <<users, nextOid, now>>
       ELSE \E existing \in RegisterExisting(req) :
              IF existing # None
              THEN /\ resp' = Response("register", 400, Detail("Email already registered"))
                   /\ UNCHANGED <<users, nextOid, now>>
              ELSE RegisterInsert(req)
    /\ UNCHANGED <<visions, goals, pending, ledger>>

\* variant: a successful login stamps the User's updated_at
LoginTouchingUser(req) ==
    /\ IF ~LoginRequestValid(req)
       THEN resp' = Response("login", 422, Detail("validation")) /\ UNCHANGED users
       ELSE \E user \in FindOne(users, [email |-> req.email[1], password_hash |-> req.password]) :
              IF user = None
              THEN resp' = Response("login", 401, Detail("Invalid credentials")) /\ UNCHANGED users
              ELSE /\ resp' = Response("login", 200,
                                       AuthBody(user[1]._id, user[1].email, user[1].name))
                   /\ users' = SetFields(users, user[1]._id, [updated_at |-> now])
    /\ UNCHANGED <<visions, goals, nextOid, now, pending, ledger>>

\* POST /api/auth/login
Login(req) ==
    /\ IF ~LoginRequestValid(req)
       THEN resp' = Response("login", 422, Detail("validation"))
       ELSE \E user \in FindOne(users, [email |-> req.email[1], password_hash |-> req.password]) :
              IF user = None
              THEN resp' = Response("login", 401, Detail("Invalid credentials"))
              ELSE resp' = Response("login", 200,
                                    AuthBody(user[1]._id, user[1].email, user[1].name))
    /\ UNCHANGED <<users, visions, goals, nextOid, now, pending, ledger>>

Take(s, n) == SubSeq(s, 1, IF Len(s) < n THEN Len(s) ELSE n)

\* variant: the whole token, not its first 6 characters
GoogleEmailWholeToken(id_token) == id_token \o <<AtSign, "googleuser.dev">>

\* f"{req.id_token[:6]}@googleuser.dev"
GoogleEmail(id_token) == Take(id_token, TokenPrefixLen) \o <<AtSign, "googleuser.dev">>

GoogleUser(email, t1, t2) ==
    [ email |-> email,
      name |-> Some(<<"Google User">>),
      auth_provider |-> "google",
      created_at |-> t1,
      updated_at |-> t2 ]

\* POST /api/auth/google
GoogleAuth(req) ==
    /\ IF ~HasValue(req, "id_token")
       THEN /\ resp' = Response("google_auth", 422, Detail("validation"))
            /\ UNCHANGED <<users, nextOid, now>>
       ELSE LET email == GoogleEmail(req.id_token[1]) IN
            \E user \in FindOne(users, [email |-> email]) :
              IF user = None
              THEN /\ CanInsert
                   /\ \E t2 \in LaterReadings :
                        /\ users' = InsertOne(users, GoogleUser(email, now, t2))
                        /\ now' = t2
                   /\ nextOid' = nextOid + 1
                   /\ resp' = Response("google_auth", 200,
                                       AuthBody(nextOid, email, Some(<<"Google User">>)))
              ELSE /\ resp' = Response("google_auth", 200,
                                       AuthBody(user[1]._id, user[1].email,
                                                Dumped(user[1], "name")))
                   /\ UNCHANGED <<users, nextOid, now>>
    /\ UNCHANGED <<visions, goals, pending, ledger>>

\* ------------------------------------------------------------------------
\* Vision
\* ------------------------------------------------------------------------
UserIds == {"u1", "u2"}

VisionU1 ==
    [user_id |-> Some("u1"), career |-> Some("Engineer"), lifestyle |-> Some("Balanced"),
     timeline |-> Some("5 years")]

VisionRequests ==
    { VisionU1,
      [user_id |-> Some("u2"), career |-> Some("Artist"), lifestyle |-> Some("Calm"),
       timeline |-> Some("1 year")],
      [user_id |-> Some("u1"), career |-> Some("Artist")] }

VisionRequestValid(req) ==
    \A k \in {"user_id", "career", "lifestyle", "timeline"} : HasValue(req, k)

VisionSummary(req) ==
    <<"In ", req.timeline[1], ", you see yourself advancing in ", req.career[1],
      ", living a ", req.lifestyle[1], " lifestyle. ...">>

VisionMilestones(req) ==
    << <<"Define a 90-day plan toward ", req.career[1]>>,
       <<"Establish weekly reflection ritual">>,
       <<"Ship one portfolio-worthy project">>,
       <<"Expand your network with 5 meaningful connections">> >>

VisionDoc(req, t1, t2) ==
    [ user_id |-> req.user_id[1],
      career |-> req.career[1],
      lifestyle |-> req.lifestyle[1],
      timeline |-> req.timeline[1],
      summary |-> VisionSummary(req),
      milestones |-> VisionMilestones(req),
      emotional_impact |-> "You feel confident, focused, and quietly proud of your momentum.",
      created_at |-> t1,
      updated_at |-> t2 ]

WithId(doc, oid) == [k \in DOMAIN doc \cup {"_id"} |-> IF k = "_id" THEN oid ELSE doc[k]]

\* POST /api/vision
CreateVision(req) ==
    /\ IF ~VisionRequestValid(req)
       THEN /\ resp' = Response("create_vision", 422, Detail("validation"))
            /\ UNCHANGED <<visions, nextOid, now>>
       ELSE /\ CanInsert
            /\ \E t2 \in LaterReadings :
                 /\ visions' = InsertOne(visions, VisionDoc(req, now, t2))
                 /\ resp' = Response("create_vision", 200,
                                     SerializeDoc(WithId(VisionDoc(req, now, t2), nextOid)))
                 /\ now' = t2
            /\ nextOid' = nextOid + 1
    /\ UNCHANGED <<users, goals, pending, ledger>>

\* GET /api/vision?user_id=
GetLatestVision(user_id) ==
    /\ \E sorted \in SortCreatedDesc(Find(visions, [user_id |-> user_id])) :
         LET docs == Limit(sorted, 1) IN
         IF docs = <<>>
         THEN resp' = Response("get_latest_vision", 200, EmptyObj)
         ELSE resp' = Response("get_latest_vision", 200,
                               SerializeDoc(docs[1]))
    /\ UNCHANGED <<users, visions, goals, nextOid, now, pending, ledger>>

\* ------------------------------------------------------------------------
\* Goals
\* ------------------------------------------------------------------------
GoalMinimal == [user_id |-> Some("u1"), title |-> Some("t1"), description |-> Some("d1")]
GoalFull ==
    [user_id |-> Some("u2"), title |-> Some("t1"), description |-> Some("d1"),
     target_date |-> Some("2030-01-01"), progress |-> Some(100), category |-> Some("c1")]

\* request bodies offered to POST /api/goals
GoalCreateRequests ==
    { GoalMinimal,
      [user_id |-> Some("u1"), title |-> Some("t1"), progress |-> Some(101)],
      [user_id |-> Some("u1"), title |-> Some("t1"), description |-> Some("d1"),
       progress |-> Some(0)],
      [user_id |-> Some("u1"), title |-> Some("t1"), progress |-> Some(-1)],
      [user_id |-> Some("u1"), title |-> Some("t1"), progress |-> None],
      [user_id |-> Some("u1")] }

ProgressOnly == [progress |-> Some(50)]

\* request bodies offered to PUT /api/goals/{goal_id}
GoalUpdateRequests ==
    { ProgressOnly,
      [title |-> Some(""), description |-> Some("d2"), target_date |-> Some("2031-01-01"),
       category |-> Some("c2"), progress |-> Some(50)],
      [title |-> None],
      [title |-> Some("t2"), progress |-> Some(101)] }

GoalUpdateFields == {"title", "description", "target_date", "progress", "category"}
\* fields the Goal document holds as plain values (declared str / int, not Optional)
GoalPlainFields == {"user_id", "title", "progress"}

\* variant: the upper limit left out
ProgressAtLeastMin(n) == ProgressMin <= n

\* Field(.., ge=0, le=100)
ProgressInRange(n) == ProgressMin <= n /\ n <= ProgressMax

\* GoalCreate: user_id and title required, progress an int in range (default 0)
GoalCreateValid(req) ==
    /\ HasValue(req, "user_id")
    /\ HasValue(req, "title")
    /\ "progress" \in DOMAIN req => req.progress # None /\ ProgressInRange(req.progress[1])

\* GoalUpdate: every field optional, progress in range when given
GoalUpdateValid(req) ==
    Dumped(req, "progress") # None => ProgressInRange(req.progress[1])

\* g.model_dump() of a GoalCreate, with the two timestamps added
GoalDoc(req, t1, t2) ==
    [ user_id |-> req.user_id[1],
      title |-> req.title[1],
      description |-> Dumped(req, "description"),
      target_date |-> Dumped(req, "target_date"),
      progress |-> IF "progress" \in DOMAIN req THEN req.progress[1] ELSE 0,
      category |-> Dumped(req, "category"),
      created_at |-> t1,
      updated_at |-> t2 ]

\* variant: "if v" in place of "if v is not None"
GoalUpdateKeptTruthy(req) ==
    {k \in GoalUpdateFields :
        /\ Dumped(req, k) # None
        /\ IF k = "progress" THEN req[k][1] # 0 ELSE req[k][1] # ""}

\* {k: v for k, v in g.model_dump().items() if v is not None}
GoalUpdateKept(req) == {k \in GoalUpdateFields : Dumped(req, k) # None}

\* variant: the $set document also stamps created_at
GoalUpdatesTouchCreated(req, t) ==
    [k \in GoalUpdateKept(req) \cup {"updated_at", "created_at"} |->
        IF k \in {"updated_at", "created_at"} THEN t
        ELSE IF k \in GoalPlainFields THEN req[k][1]
        ELSE req[k]]

\* the $set document of update_goal
GoalUpdates(req, t) ==
    [k \in GoalUpdateKept(req) \cup {"updated_at"} |->
        IF k = "updated_at" THEN t
        ELSE IF k \in GoalPlainFields THEN req[k][1]
        ELSE req[k]]

\* path parameters offered as {goal_id}
ToUpper(s) == [i \in 1..Len(s) |->
                 IF \E j \in 1..16 : HexLower[j] = s[i]
                 THEN HexUpper[CHOOSE j \in 1..16 : HexLower[j] = s[i]] ELSE s[i]]

IssuedIdInputs == {ObjectIdStr(n) : n \in FirstOid..(FirstOid + MaxDocs - 1)}

WellFormedIdInputs ==
    IssuedIdInputs
        \cup {ObjectIdStr(FirstOid + MaxDocs)}
        \cup {ToUpper(ObjectIdStr(FirstOid + 1))}

MalformedIdInputs == {<<"a", "b", "c">>, [i \in 1..OidHexLen |-> "g"]}

GoalIdInputs == WellFormedIdInputs \cup MalformedIdInputs

\* ParseObjectId, tabulated once for the path parameters offered
ParsedGoalIds == [s \in GoalIdInputs |-> ParseObjectId(s)]
ObjectId(s) == IF s \in GoalIdInputs THEN ParsedGoalIds[s] ELSE ParseObjectId(s)

\* the (goal_id, body) pairs sent to PUT: every body to every well-formed id,
\* one body to each malformed id
GoalUpdateCalls ==
    (WellFormedIdInputs \X GoalUpdateRequests) \cup (MalformedIdInputs \X {ProgressOnly})

\* GET /api/goals?user_id=
ListGoals(user_id) ==
    /\ \E docs \in SortCreatedDesc(Find(goals, [user_id |-> user_id])) :
         resp' = Response("list_goals", 200,
                          [i \in 1..Len(docs) |-> SerializeDoc(docs[i])])
    /\ UNCHANGED <<users, visions, goals, nextOid, now, pending, ledger>>

\* POST /api/goals
CreateGoal(req) ==
    /\ IF ~GoalCreateValid(req)
       THEN /\ resp' = Response("create_goal", 422, Detail("validation"))
            /\ UNCHANGED <<goals, nextOid, now, ledger>>
       ELSE /\ CanInsert
            /\ \E t2 \in LaterReadings :
                 /\ goals' = InsertOne(goals, GoalDoc(req, now, t2))
                 /\ resp' = Response("create_goal", 200,
                                     SerializeDoc(WithId(GoalDoc(req, now, t2), nextOid)))
                 /\ now' = t2
            /\ nextOid' = nextOid + 1
            /\ ledger' = [ledger EXCEPT !.created =
                             @ \cup {[oid |-> ObjectId(resp'.body.id)[1],
                                      user_id |-> req.user_id[1]]}]
    /\ UNCHANGED <<users, visions, pending>>

\* PUT /api/goals/{goal_id}
UpdateGoal(goal_id, req) ==
    LET oid == ObjectId(goal_id) IN
    /\ IF ~GoalUpdateValid(req)
       THEN /\ resp' = Response("update_goal", 422, Detail("validation"))
            /\ UNCHANGED goals
       ELSE IF oid = None
       THEN /\ resp' = Response("update_goal", 500, Detail("InvalidId"))
            /\ UNCHANGED goals
       ELSE \E res \in FindOne(goals, [_id |-> oid[1]]) :
              IF res = None
              THEN /\ resp' = Response("update_goal", 404, Detail("Goal not found"))
                   /\ UNCHANGED goals
              ELSE /\ goals' = SetFields(goals, res[1]._id, GoalUpdates(req, now))
                   /\ \E after \in FindOne(goals', [_id |-> res[1]._id]) :
                        resp' = Response("update_goal", 200, SerializeDoc(after[1]))
    /\ UNCHANGED <<users, visions, nextOid, now, pending, ledger>>

\* variant: deleted_count is not looked at
DeleteGoalUnchecked(goal_id) ==
    LET oid == ObjectId(goal_id) IN
    /\ IF oid = None
       THEN /\ resp' = Response("delete_goal", 500, Detail("InvalidId"))
            /\ UNCHANGED <<goals, ledger>>
       ELSE /\ goals' = RemoveFirst(goals, oid[1])
            /\ resp' = Response("delete_goal", 200, [ok |-> TRUE])
            /\ ledger' = [ledger EXCEPT !.deleted = @ \cup {oid[1]}]
    /\ UNCHANGED <<users, visions, nextOid, now, pending>>

\* DELETE /api/goals/{goal_id}
DeleteGoal(goal_id) ==
    LET oid == ObjectId(goal_id) IN
    /\ IF oid = None
       THEN /\ resp' = Response("delete_goal", 500, Detail("InvalidId"))
            /\ UNCHANGED <<goals, ledger>>
       ELSE IF Find(goals, [_id |-> oid[1]]) = {}
       THEN /\ resp' = Response("delete_goal", 404, Detail("Goal not found"))
            /\ UNCHANGED <<goals, ledger>>
       ELSE /\ goals' = RemoveFirst(goals, oid[1])
            /\ resp' = Response("delete_goal", 200, [ok |-> TRUE])
            /\ ledger' = [ledger EXCEPT !.deleted = @ \cup {oid[1]}]
    /\ UNCHANGED <<users, visions, nextOid, now, pending>>

\* ------------------------------------------------------------------------
\* Chat
\* ------------------------------------------------------------------------
ChatHello == [user_id |-> Some("u1"), message |-> Some("hello")]

\* POST /api/chat
Chat(req) ==
    /\ resp' = Response("chat", 200, [reply |-> "I hear you. ..."])
    /\ UNCHANGED <<users, visions, goals, nextOid, now, pending, ledger>>

\* ------------------------------------------------------------------------
\* register under concurrent requests: the handler's two store calls are
\* separate steps, and another request may be served between them
\* ------------------------------------------------------------------------
RegisterCheck(p, req) ==
    /\ pending[p] = None
    /\ IF ~RegisterRequestValid(req)
       THEN /\ resp' = Response("register", 422, Detail("validation"))
            /\ UNCHANGED pending
       ELSE \E existing \in RegisterExisting(req) :
              IF existing # None
              THEN /\ resp' = Response("register", 400, Detail("Email already registered"))
                   /\ UNCHANGED pending
              ELSE /\ pending' = [pending EXCEPT ![p] = Some(req)]
                   /\ UNCHANGED resp
    /\ UNCHANGED <<users, visions, goals, nextOid, now, ledger>>

\* variant: the existence check is repeated at the insert
RegisterCommitRechecked(p) ==
    /\ pending[p] # None
    /\ IF HasEmail(users, pending[p][1].email[1])
       THEN /\ resp' = Response("register", 400, Detail("Email already registered"))
            /\ UNCHANGED <<users, nextOid, now>>
       ELSE RegisterInsert(pending[p][1])
    /\ pending' = [pending EXCEPT ![p] = None]
    /\ UNCHANGED <<visions, goals, ledger>>

RegisterCommit(p) ==
    /\ pending[p] # None
    /\ RegisterInsert(pending[p][1])
    /\ pending' = [pending EXCEPT ![p] = None]
    /\ UNCHANGED <<visions, goals, ledger>>

\* ------------------------------------------------------------------------
\* Specifications
\* ------------------------------------------------------------------------
NextAuth ==
    \/ Tick
    \/ \E req \in RegisterRequests : Register(req)
    \/ \E req \in LoginRequests : Login(req)
    \/ \E req \in GoogleAuthRequests : GoogleAuth(req)

NextRace ==
    \/ Tick
    \/ \E p \in Procs, req \in RegisterRequests : RegisterCheck(p, req)
    \/ \E p \in Procs : RegisterCommit(p)
    \/ \E req \in LoginRequests : Login(req)

NextVision ==
    \/ Tick
    \/ \E req \in VisionRequests : CreateVision(req)
    \/ \E user_id \in UserIds : GetLatestVision(user_id)

NextGoals ==
    \/ Tick
    \/ \E req \in GoalCreateRequests : CreateGoal(req)
    \/ \E call \in GoalUpdateCalls : UpdateGoal(call[1], call[2])
    \/ \E goal_id \in GoalIdInputs : DeleteGoal(goal_id)

NextList ==
    \/ Tick
    \/ \E user_id \in UserIds : ListGoals(user_id)
    \/ \E req \in {GoalMinimal, GoalFull} : CreateGoal(req)
    \/ \E goal_id \in IssuedIdInputs : UpdateGoal(goal_id, ProgressOnly)
    \/ \E goal_id \in IssuedIdInputs : DeleteGoal(goal_id)

\* every handler, each with few inputs
Next ==
    \/ Tick
    \/ \E req \in {RegisterA, RegisterG} : Register(req)
    \/ Login(LoginA)
    \/ GoogleAuth(GoogleX)
    \/ CreateVision(VisionU1)
    \/ GetLatestVision("u1")
    \/ ListGoals("u1")
    \/ CreateGoal(GoalMinimal)
    \/ \E goal_id \in IssuedIdInputs : UpdateGoal(goal_id, ProgressOnly)
    \/ \E goal_id \in IssuedIdInputs : DeleteGoal(goal_id)
    \/ Chat(ChatHello)

SpecAuth == Init /\ [][NextAuth]_vars
SpecRace == Init /\ [][NextRace]_vars
SpecVision == Init /\ [][NextVision]_vars
SpecGoals == Init /\ [][NextGoals]_vars
SpecList == Init /\ [][NextList]_vars
Spec == Init /\ [][Next]_vars

\* ------------------------------------------------------------------------
\* Properties
\* ------------------------------------------------------------------------

\* C1: register answers 400 and inserts nothing when a User with the e-mail
\* is already stored, and otherwise answers 200 and appends one User with
\* that e-mail and auth_provider "password"; served one after another,
\* register calls leave at most one User per e-mail.
C1_RegisterConflict ==
    /\ [](\A i, j \in 1..Len(users) : users[i].email = users[j].email => i = j)
    /\ [][\A req \in RegisterRequests :
            (Register(req) /\ RegisterRequestValid(req)) =>
                IF HasEmail(users, req.email[1])
                THEN resp'.status = 400 /\ users' = users
                ELSE /\ resp'.status = 200
                     /\ Len(users') = Len(users) + 1
                     /\ IsPrefix(users, users')
                     /\ Last(users').email = req.email[1]
                     /\ Last(users').auth_provider = "password"
                     /\ resp'.body.user.id = ObjectIdStr(Last(users')._id)]_vars

C1_Witness ==
    /\ resp.op = "register"
    /\ resp.status = 400
    /\ Len(users) = 2
    /\ \E i \in 1..Len(users) : users[i].email = MailA /\ users[i].auth_provider = "password"

\* C2 as stated: once Google Auth has answered for a token, exactly one User
\* record made by Google Auth (auth_provider "google") carries the e-mail
\* derived from the token's first 6 characters.
C2_ExactlyOneGoogleUser ==
    (resp.op = "google_auth" /\ resp.status = 200) =>
        Cardinality({i \in WithEmail(users, resp.body.user.email) :
                        users[i].auth_provider = "google"}) = 1

\* C2 amended: Google Auth for a token returns the id of the one User that
\* carries the derived e-mail; it inserts that User (auth_provider "google")
\* only when no User with the e-mail is stored, whoever stored it, and
\* otherwise inserts nothing; two calls in a row for tokens with the same
\* first 6 characters return the same user.id.
C2_GoogleAuthIdempotent ==
    /\ []((resp.op = "google_auth" /\ resp.status = 200) =>
            /\ Cardinality(WithEmail(users, resp.body.user.email)) = 1
            /\ \A i \in WithEmail(users, resp.body.user.email) :
                 resp.body.user.id = ObjectIdStr(users[i]._id))
    /\ [][\A req \in GoogleAuthRequests :
            GoogleAuth(req) =>
                LET email == Take(req.id_token[1], TokenPrefixLen)
                                 \o <<AtSign, "googleuser.dev">> IN
                /\ resp'.status = 200
                /\ resp'.body.user.email = email
                /\ IF HasEmail(users, email)
                   THEN users' = users
                   ELSE /\ Len(users') = Len(users) + 1
                        /\ IsPrefix(users, users')
                        /\ Last(users').email = email
                        /\ Last(users').auth_provider = "google"
                /\ (resp.op = "google_auth" /\ resp.status = 200
                        /\ resp.body.user.email = email) =>
                      (resp'.body.user.id = resp.body.user.id /\ users' = users)]_vars

C2_Witness ==
    /\ resp.op = "google_auth"
    /\ resp.status = 200
    /\ \E i \in 1..Len(users) :
         /\ users[i].email = MailG
         /\ users[i].auth_provider = "google"
         /\ resp.body.user.id = ObjectIdStr(users[i]._id)
         /\ now > users[i].updated_at

\* C3: a successful update_goal leaves every field of title, description,
\* target_date, progress, category that the body leaves unset (absent or
\* null) as stored, gives every other one the value sent, sets updated_at to
\* the clock's reading, and changes nothing else of the goal or of any other
\* goal.
C3_UpdateIsMerge ==
    [][\A goal_id \in WellFormedIdInputs :
         LET oid == ObjectId(goal_id)[1] IN
         (resp'.op = "update_goal" /\ resp'.status = 200 /\ \E d \in Range(goals) : d._id = oid) =>
             \A req \in GoalUpdateRequests :
                 UpdateGoal(goal_id, req) =>
                     LET old == DocById(goals, oid)
                         new == DocById(goals', oid)
                     IN /\ \A k \in {"title", "description", "target_date", "progress",
                                      "category"} :
                              IF k \notin DOMAIN req \/ req[k] = None
                              THEN new[k] = old[k]
                              ELSE new[k] = (IF k \in {"title", "progress"}
                                             THEN req[k][1] ELSE req[k])
                        /\ new.updated_at = now
                        /\ new.updated_at >= old.updated_at
                        /\ new.user_id = old.user_id
                        /\ new.created_at = old.created_at
                        /\ DOMAIN new = DOMAIN old
                        /\ Len(goals') = Len(goals)
                        /\ \A i \in 1..Len(goals) : goals[i]._id # oid => goals'[i] = goals[i]
                        /\ resp'.body.progress = new.progress
                        /\ resp'.body.id = ObjectIdStr(oid)]_vars

C3_Witness ==
    /\ resp.op = "update_goal"
    /\ resp.status = 200
    /\ \E d \in Range(goals) :
         /\ d.progress = 50
         /\ d.title = "t1"
         /\ d.description = Some("d1")
         /\ d.target_date = None
         /\ d.updated_at > d.created_at
         /\ resp.body.id = ObjectIdStr(d._id)

\* the goal identities create_goal has handed out and delete_goal has not
\* since confirmed deleted
LiveGoalOids == {c.oid : c \in ledger.created} \ ledger.deleted
NotLive(goal_id) == LET oid == ObjectId(goal_id) IN oid = None \/ oid[1] \notin LiveGoalOids
ValidUpdateBodies == {req \in GoalUpdateRequests :
                         \A k \in DOMAIN req \cap {"progress"} :
                             req[k] = None \/ (0 <= req[k][1] /\ req[k][1] <= 100)}

\* C4 as stated: update_goal and delete_goal with an identity that was never
\* issued, or was issued and since deleted, answer 404 and leave the goal
\* collection as it was.
C4_NotFoundAlways404 ==
    [][\A goal_id \in GoalIdInputs :
         \/ resp'.status = 404 /\ goals' = goals
         \/ ~(/\ resp'.op \in {"delete_goal", "update_goal"}
              /\ NotLive(goal_id)
              /\ \/ resp'.op = "delete_goal" /\ DeleteGoal(goal_id)
                 \/ /\ resp'.op = "update_goal"
                    /\ \E req \in ValidUpdateBodies : UpdateGoal(goal_id, req))]_vars

\* C4 amended: with an identity that is not live, update_goal and delete_goal
\* never answer 200 and leave the goal collection as it was; the answer is
\* 404 when the identity is well formed (24 hex digits) and an unhandled
\* InvalidId error (500) when it is not.
C4_NotFoundOrInvalid ==
    [][\A goal_id \in GoalIdInputs :
         \/ /\ goals' = goals
            /\ resp'.status =
                 (IF Len(goal_id) = OidHexLen /\ \A i \in 1..Len(goal_id) : IsHexChar(goal_id[i])
                  THEN 404 ELSE 500)
         \/ ~(/\ resp'.op \in {"delete_goal", "update_goal"}
              /\ NotLive(goal_id)
              /\ \/ resp'.op = "delete_goal" /\ DeleteGoal(goal_id)
                 \/ /\ resp'.op = "update_goal"
                    /\ \E req \in ValidUpdateBodies : UpdateGoal(goal_id, req))]_vars

C4_Witness ==
    /\ resp.op = "delete_goal"
    /\ resp.status = 404
    /\ ledger.deleted # {}
    /\ {c.oid : c \in ledger.created} = ledger.deleted
    /\ goals = <<>>

\* C5: every stored goal has progress in 0..100; create_goal and update_goal
\* with progress outside 0..100 answer 422 and leave the collection as it
\* was; create_goal without progress stores 0.
C5_ProgressBound ==
    /\ [](\A d \in Range(goals) : d.progress \in 0..100)
    /\ [][/\ \A req \in GoalCreateRequests :
               (resp'.op = "create_goal" /\ CreateGoal(req)) =>
                   /\ (HasValue(req, "progress") /\ req.progress[1] \notin 0..100)
                         => (resp'.status = 422 /\ goals' = goals)
                   /\ (resp'.status = 200 /\ "progress" \notin DOMAIN req)
                         => Last(goals').progress = 0
          /\ \A call \in GoalUpdateCalls :
               (/\ resp'.op = "update_goal"
                /\ HasValue(call[2], "progress")
                /\ call[2].progress[1] \notin 0..100
                /\ UpdateGoal(call[1], call[2]))
                   => (resp'.status = 422 /\ goals' = goals)]_vars

C5_Witness ==
    /\ resp.status = 422
    /\ resp.op = "update_goal"
    /\ \E d \in Range(goals) : d.progress = 50
    /\ \E d \in Range(goals) : d.progress = 0

\* C6: a register call whose existence check has passed inserts its User and
\* answers 200 whatever was stored in between, so two calls for one e-mail
\* that both check before either inserts both succeed.
C6_InsertAfterCheck ==
    [][\A p \in Procs :
         (pending[p] # None /\ pending'[p] = None) =>
             /\ Len(users') = Len(users) + 1
             /\ Last(users').email = pending[p][1].email[1]
             /\ Last(users').auth_provider = "password"
             /\ resp'.op = "register"
             /\ resp'.status = 200]_vars

C6_Witness ==
    \E i, j \in 1..Len(users) :
        /\ i < j
        /\ users[i].email = users[j].email
        /\ users[i].auth_provider = "password"
        /\ users[j].auth_provider = "password"

\* C7: no step changes the created_at of a User, Vision or Goal that stays
\* stored, and a record that a step inserts gets the clock's reading as its
\* created_at.
CreatedAtKept(col, colNext) ==
    /\ \A d \in Range(col), e \in Range(colNext) :
         d._id = e._id => d.created_at = e.created_at
    /\ \A e \in Range(colNext) :
         (\A d \in Range(col) : d._id # e._id) => e.created_at = now

C7_CreatedAtImmutable ==
    [][/\ CreatedAtKept(users, users')
       /\ CreatedAtKept(visions, visions')
       /\ CreatedAtKept(goals, goals')]_vars

C7_Witness ==
    /\ resp.op = "update_goal"
    /\ resp.status = 200
    /\ \E d \in Range(goals) : d.updated_at > d.created_at /\ d.progress = 50

\* C8: get_latest_vision for u, called right after create_vision stored a
\* Vision for u, returns that Vision.
C8_LatestIsJustCreated ==
    [][\A u \in UserIds :
         (/\ resp.op = "create_vision"
          /\ resp.status = 200
          /\ resp.body.user_id = u
          /\ GetLatestVision(u))
             => resp'.body.id = resp.body.id]_vars

\* C9: list_goals for u answers 200 with exactly the goals created for u and
\* not deleted since, each once, in non-increasing order of created_at (an
\* empty sequence when there are none).
C9_ListGoalsExact ==
    [][\A u \in UserIds :
         (resp'.op = "list_goals" /\ ListGoals(u)) =>
             LET body == resp'.body
                 live == {c \in ledger.created : c.user_id = u /\ c.oid \notin ledger.deleted}
             IN /\ resp'.status = 200
                /\ {body[i].id : i \in 1..Len(body)} = {ObjectIdStr(c.oid) : c \in live}
                /\ Len(body) = Cardinality(live)
                /\ \A i \in 1..Len(body) : body[i].user_id = u
                /\ \A i, j \in 1..Len(body) :
                     i < j => body[i].created_at[2] >= body[j].created_at[2]]_vars

C9_Witness ==
    /\ resp.op = "list_goals"
    /\ Len(resp.body) = 2
    /\ resp.body[1].created_at[2] > resp.body[2].created_at[2]

\* C10: no step removes a User or a Vision or changes a stored field of one:
\* the user and vision collections only grow at the end.
C10_AppendOnly ==
    [][IsPrefix(users, users') /\ IsPrefix(visions, visions')]_vars

C10_Witness ==
    /\ Len(users) >= 1
    /\ resp.op = "delete_goal"
    /\ resp.status = 200
====
